---- MODULE Spec2Model ----
(***************************************************************************)
(* Model of gbridge-bridge (src/main.rs): an MQTT relay that subscribes to *)
(* a source broker, maps (topic, payload) to a tristate command through a  *)
(* name-keyed switch table and republishes the command on a target broker. *)
(*                                                                         *)
(* Strings whose characters matter (topics, switch names) are sequences of *)
(* one-character strings; payloads are sequences of bytes (0..255); the    *)
(* command strings, which the program only copies, are TLA+ strings.       *)
(***************************************************************************)
EXTENDS Integers, Sequences, FiniteSets, TLC

\* ------------------------------------------------------------------ bounds
\* Longest `switches` list of the configuration file.
MaxSwitches == 2
\* Number of events the source notification stream delivers at most.
MaxEvents == 2
\* Number of requests the event loop of the target connection takes at most.
MaxTargetEvents == 1
\* Number of Publish events the source stream delivers in SpecBacklog.
BacklogEvents == 65

\* MqttClient::new(options, 64): the capacity of the channel that carries the
\* requests of a client to the event loop of its connection.
REQUEST_CAP == 64

\* --------------------------------------------------------------- Option<T>
None == [tag |-> "None", val |-> "-"]
Some(v) == [tag |-> "Some", val |-> v]

\* ----------------------------------------------------------- string values
\* "/" as a char, the separator of topic.split('/')
SLASH == "/"

\* Switch names of the configuration
n_d2777 == <<"d", "2", "7", "7", "7">>
n_d2778 == <<"d", "2", "7", "7", "8">>
n_empty == <<>>

\* The byte strings "0" and "1" (payload == "0", payload == "1")
STR_0 == <<48>>
STR_1 == <<49>>

\* SwitchConfig { name, on, off }
SwitchConfig(name, on, off) == [name |-> name, on |-> on, off |-> off]

\* The SwitchConfig values a configuration file is drawn from: the two of the
\* sample configuration, a second entry for d2777 with other commands and an
\* entry with the empty name.
SwitchPool ==
    { SwitchConfig(n_d2777, "FFFFFFFF0001", "FFFFFFFF0010"),
      SwitchConfig(n_d2778, "FFFFFF0F0001", "FFFFF0FF0010"),
      SwitchConfig(n_d2777, "0F0F0F0F0001", "0F0F0F0F0010"),
      SwitchConfig(n_empty, "F0F0F0F00001", "F0F0F0F00010") }

RECURSIVE SeqsUpTo(_, _)
SeqsUpTo(S, n) ==
    IF n = 0 THEN { <<>> }
    ELSE LET shorter == SeqsUpTo(S, n - 1)
         IN shorter \cup { Append(s, x) : s \in shorter, x \in S }

\* Config.switches: Vec<SwitchConfig>
SwitchLists == SeqsUpTo(SwitchPool, MaxSwitches)

\* Config.target_topic
TargetTopic == <<"z", "a", "p">>

\* Topics of inbound Publish packets
t_d2777_set == <<"h", "o", "m", "e", "/", "l", "i", "v", "i", "n", "g", "/",
                 "d", "2", "7", "7", "7", "/", "s", "e", "t">>
t_unknown_set == <<"h", "o", "m", "e", "/", "l", "i", "v", "i", "n", "g", "/",
                   "u", "n", "k", "n", "o", "w", "n", "/", "s", "e", "t">>
t_d2778 == <<"h", "/", "l", "/", "d", "2", "7", "7", "8">>
t_empty == <<>>
t_two_segments == <<"/", "d", "2", "7", "7", "7">>
t_three_empty == <<"/", "/">>
Topics ==
    { t_d2777_set,        \* "home/living/d2777/set"
      t_unknown_set,      \* "home/living/unknown/set"
      t_d2778,            \* "h/l/d2778"  the third segment is the last one
      t_empty,            \* ""           one segment, the empty string
      t_two_segments,     \* "/d2777"     two segments, the second a name
      t_three_empty }     \* "//"         three segments, all empty

\* Payloads of inbound Publish packets (bytes)
p_1_space == <<49, 32>>
p_e_acute == <<195, 169>>
p_not_utf8 == <<255>>
Payloads ==
    { STR_0,              \* "0"
      STR_1,              \* "1"
      <<>>,               \* ""
      p_1_space,          \* "1 "
      p_e_acute,          \* "e" with an acute accent, two bytes
      p_not_utf8 }        \* 0xFF occurs in no UTF-8 string

\* ---------------------------------------------------------- pure functions
\* str::split('/').collect::<Vec<_>>(): the maximal runs between separators;
\* a string without separator (the empty one included) is one segment.
RECURSIVE split(_, _)
split(s, sep) ==
    IF \A i \in 1..Len(s) : s[i] # sep THEN << s >>
    ELSE LET i == CHOOSE k \in 1..Len(s) :
                      s[k] = sep /\ \A j \in 1..(k - 1) : s[j] # sep
         IN << SubSeq(s, 1, i - 1) >> \o split(SubSeq(s, i + 1, Len(s)), sep)

\* slice::get(i), zero-based
get(v, i) == IF i < Len(v) THEN Some(v[i + 1]) ELSE None

\* HashMap::get(key)
map_get(m, k) == IF k \in DOMAIN m THEN Some(m[k]) ELSE None

\* HashMap::insert(key, value): an existing entry of the key is replaced
map_insert(m, k, v) == [x \in (DOMAIN m) \cup {k} |-> IF x = k THEN v ELSE m[x]]

\* HashMap::new()
EmptyMap == [x \in {} |-> x]

\* A continuation byte 10xxxxxx
IsCont(b) == b >= 128 /\ b <= 191

\* std::str::from_utf8 accepts exactly the well-formed UTF-8 byte sequences
RECURSIVE ValidUtf8(_)
ValidUtf8(b) ==
    IF Len(b) = 0 THEN TRUE
    ELSE LET b1 == b[1]
             n == Len(b)
         IN IF b1 < 128 THEN ValidUtf8(SubSeq(b, 2, n))
            ELSE IF b1 >= 194 /\ b1 <= 223
            THEN n >= 2 /\ IsCont(b[2]) /\ ValidUtf8(SubSeq(b, 3, n))
            ELSE IF b1 >= 224 /\ b1 <= 239
            THEN /\ n >= 3
                 /\ IsCont(b[2])
                 /\ IsCont(b[3])
                 /\ (b1 = 224 => b[2] >= 160)
                 /\ (b1 = 237 => b[2] <= 159)
                 /\ ValidUtf8(SubSeq(b, 4, n))
            ELSE IF b1 >= 240 /\ b1 <= 244
            THEN /\ n >= 4
                 /\ IsCont(b[2])
                 /\ IsCont(b[3])
                 /\ IsCont(b[4])
                 /\ (b1 = 240 => b[2] >= 144)
                 /\ (b1 = 244 => b[2] <= 143)
                 /\ ValidUtf8(SubSeq(b, 5, n))
            ELSE FALSE

\* from_utf8 that drops the bytes that are not part of a well-formed sequence
RECURSIVE DropInvalid(_)
DropInvalid(b) ==
    IF Len(b) = 0 THEN <<>>
    ELSE IF ValidUtf8(b) THEN b
    ELSE IF ValidUtf8(<< b[1] >>) THEN << b[1] >> \o DropInvalid(Tail(b))
    ELSE DropInvalid(Tail(b))

from_utf8_lossy(b) == [tag |-> "Ok", val |-> DropInvalid(b)]

\* std::str::from_utf8(&p.payload): the same bytes as a str, or an error
Utf8Error == [tag |-> "Err", val |-> <<>>]
from_utf8(b) == IF ValidUtf8(b) THEN [tag |-> "Ok", val |-> b] ELSE Utf8Error

\* zap_tristate with the payloads exchanged ("0" gives on, "1" gives off)
zap_tristate_swapped(topic, payload, switch_configs) ==
    LET switch == get(split(topic, SLASH), 2)
        c == IF switch.tag = "Some" THEN map_get(switch_configs, switch.val) ELSE None
    IN IF c.tag = "None" THEN None
       ELSE IF payload = STR_0 THEN Some(c.val.on)
       ELSE IF payload = STR_1 THEN Some(c.val.off)
       ELSE None

\* zap_tristate taking the segment at index 1 when there is none at index 2
zap_tristate_short(topic, payload, switch_configs) ==
    LET segs == split(topic, SLASH)
        switch == IF Len(segs) > 2 THEN get(segs, 2) ELSE get(segs, Len(segs) - 1)
        c == IF switch.tag = "Some" THEN map_get(switch_configs, switch.val) ELSE None
    IN IF c.tag = "None" THEN None
       ELSE IF payload = STR_0 THEN Some(c.val.off)
       ELSE IF payload = STR_1 THEN Some(c.val.on)
       ELSE None

\* zap_tristate comparing only the first byte of the payload
zap_tristate_prefix(topic, payload, switch_configs) ==
    LET switch == get(split(topic, SLASH), 2)
        c == IF switch.tag = "Some" THEN map_get(switch_configs, switch.val) ELSE None
    IN IF c.tag = "None" THEN None
       ELSE IF Len(payload) > 0 /\ payload[1] = 48 THEN Some(c.val.off)
       ELSE IF Len(payload) > 0 /\ payload[1] = 49 THEN Some(c.val.on)
       ELSE None

\* fn zap_tristate(topic, payload, switch_configs) -> Option<String>
zap_tristate(topic, payload, switch_configs) ==
    LET switch == get(split(topic, SLASH), 2)
        c == IF switch.tag = "Some" THEN map_get(switch_configs, switch.val) ELSE None
    IN IF c.tag = "None" THEN None
       ELSE IF payload = STR_0 THEN Some(c.val.off)
       ELSE IF payload = STR_1 THEN Some(c.val.on)
       ELSE None

\* HashMap::from_iter: the pairs are inserted in iteration order
RECURSIVE from_iter(_)
from_iter(pairs) ==
    IF Len(pairs) = 0 THEN EmptyMap
    ELSE LET last == pairs[Len(pairs)]
         IN map_insert(from_iter(SubSeq(pairs, 1, Len(pairs) - 1)), last[1], last[2])

\* prepare_switch_configs keeping the first entry of a name
prepare_switch_configs_first(configs) ==
    from_iter([i \in 1..Len(configs) |->
                 LET c == configs[Len(configs) + 1 - i] IN << c.name, c >>])

\* prepare_switch_configs keyed by at most the first four chars of the name
prepare_switch_configs_truncated(configs) ==
    from_iter([i \in 1..Len(configs) |->
                 LET c == configs[i]
                     k == IF Len(c.name) > 4 THEN SubSeq(c.name, 1, 4) ELSE c.name
                 IN << k, c >>])

\* fn prepare_switch_configs(configs) -> HashMap<String, SwitchConfig>
prepare_switch_configs(configs) ==
    from_iter([i \in 1..Len(configs) |-> << configs[i].name, configs[i] >>])

\* -------------------------------------------------------------------- state
VARIABLES
    config,           \* Config read from the file named by argv[1]
    pc,               \* position of the main thread in main() and run()
    target_client,    \* TRUE once MqttClient::new("target", ..) has returned
    source_client,    \* TRUE once MqttClient::new("source", ..) has returned
    drain,            \* the thread iterating target_notifications
    target_drained,   \* number of requests that thread has taken and logged
    target_queued,    \* publish requests in the target client's channel
    subscribed,       \* TRUE once source_mqtt_client.subscribe returned Ok
    switch_configs,   \* the table built by prepare_switch_configs
    notification,     \* the event of the current (last) loop iteration
    consumed,         \* number of events taken from source_notifications
    tristate,         \* `tristate` of the current (last) loop iteration
    publish_calls,    \* the calls of client.publish, in order, with outcome
    publish_count,    \* the statsd counter "publish"
    run_result,       \* what run() returned
    captured,         \* number of errors handed to sentry capture_error
    stderr,           \* TRUE once "ERR: Missing configuration argument."
    warned,           \* TRUE once "MQTT connection closed." is logged
    exit              \* how the process ended

vars == << config, pc, target_client, source_client, drain, target_drained,
           target_queued, subscribed, switch_configs, notification, consumed, tristate,
           publish_calls, publish_count, run_result, captured, stderr,
           warned, exit >>

\* Events of a rumqttc notification stream, as far as run() tells them apart
NoEvent == [kind |-> "none", topic |-> <<>>, payload |-> <<>>]
ErrEvent == [kind |-> "Err", topic |-> <<>>, payload |-> <<>>]
OtherIncoming == [kind |-> "Incoming", topic |-> <<>>, payload |-> <<>>]
PingReq == [kind |-> "PingReq", topic |-> <<>>, payload |-> <<>>]
OtherOutgoing == [kind |-> "Outgoing", topic |-> <<>>, payload |-> <<>>]
Publish(topic, payload) == [kind |-> "Publish", topic |-> topic, payload |-> payload]
Events ==
    { ErrEvent, OtherIncoming, PingReq, OtherOutgoing }
        \cup { Publish(t, p) : t \in Topics, p \in Payloads }

Unset == [tag |-> "Unset", val |-> "-"]
NoConfig == [switches |-> <<>>, target_topic |-> <<>>]

Init ==
    /\ config = NoConfig
    /\ pc = "main"
    /\ target_client = FALSE
    /\ source_client = FALSE
    /\ drain = "unspawned"
    /\ target_drained = 0
    /\ target_queued = 0
    /\ subscribed = FALSE
    /\ switch_configs = EmptyMap
    /\ notification = NoEvent
    /\ consumed = 0
    /\ tristate = Unset
    /\ publish_calls = <<>>
    /\ publish_count = 0
    /\ run_result = "none"
    /\ captured = 0
    /\ stderr = FALSE
    /\ warned = FALSE
    /\ exit = "running"

\* ------------------------------------------------------------------ main()
\* No argv[1]: the message goes to stderr and main returns Ok(()).
main_no_arg ==
    /\ pc = "main"
    /\ stderr' = TRUE
    /\ pc' = "exited"
    /\ exit' = "success"
    /\ UNCHANGED << config, target_client, source_client, drain, target_drained,
                    subscribed, switch_configs, notification, consumed, tristate,
                    publish_calls, publish_count, run_result, captured, warned,
                    target_queued >>

\* read_to_string, toml::from_str or init_metrics fails: `?` returns the
\* error from main before run() is called.
main_setup_error ==
    /\ pc = "main"
    /\ pc' = "exited"
    /\ exit' = "failure"
    /\ UNCHANGED << config, target_client, source_client, drain, target_drained,
                    subscribed, switch_configs, notification, consumed, tristate,
                    publish_calls, publish_count, run_result, captured, stderr,
                    warned,
                    target_queued >>

\* The configuration is read and parsed, logs and metrics are set up and
\* run(config, metrics) is entered.
main_load_config ==
    /\ pc = "main"
    /\ \E sw \in SwitchLists :
          config' = [switches |-> sw, target_topic |-> TargetTopic]
    /\ pc' = "target_connect"
    /\ UNCHANGED << target_client, source_client, drain, target_drained,
                    subscribed, switch_configs, notification, consumed, tristate,
                    publish_calls, publish_count, run_result, captured, stderr,
                    warned, exit,
                    target_queued >>

\* main_return without the map_err: the error of run is returned uncaptured
main_return_no_capture ==
    /\ pc = "run_returned"
    /\ captured' = captured
    /\ exit' = IF run_result = "Ok" THEN "success" ELSE "failure"
    /\ pc' = "exited"
    /\ UNCHANGED << config, target_client, source_client, drain, target_drained,
                    subscribed, switch_configs, notification, consumed, tristate,
                    publish_calls, publish_count, run_result, stderr, warned,
                    target_queued >>

\* run(..).map_err(capture_error): an error of run goes to sentry, then main
\* returns what run returned.
main_return ==
    /\ pc = "run_returned"
    /\ captured' = IF run_result = "Ok" THEN captured ELSE captured + 1
    /\ exit' = IF run_result = "Ok" THEN "success" ELSE "failure"
    /\ pc' = "exited"
    /\ UNCHANGED << config, target_client, source_client, drain, target_drained,
                    subscribed, switch_configs, notification, consumed, tristate,
                    publish_calls, publish_count, run_result, stderr, warned,
                    target_queued >>

\* ------------------------------------------------------------------- run()
target_connect ==
    /\ pc = "target_connect"
    /\ target_client' = TRUE
    /\ pc' = "spawn"
    /\ UNCHANGED << config, source_client, drain, target_drained, subscribed,
                    switch_configs, notification, consumed, tristate,
                    publish_calls, publish_count, run_result, captured, stderr,
                    warned, exit,
                    target_queued >>

spawn_target_drain ==
    /\ pc = "spawn"
    /\ drain' = "running"
    /\ pc' = "source_connect"
    /\ UNCHANGED << config, target_client, source_client, target_drained,
                    subscribed, switch_configs, notification, consumed, tristate,
                    publish_calls, publish_count, run_result, captured, stderr,
                    warned, exit,
                    target_queued >>

\* One iteration of the spawned thread: the iterator polls the event loop of
\* the target connection, which takes a request of the client from the
\* channel, and the event is logged at trace level. (An iteration that yields
\* a packet read from the network changes the trace log only.)
target_drain_step ==
    /\ drain = "running"
    /\ exit = "running"
    /\ target_drained < MaxTargetEvents
    /\ target_queued > 0
    /\ target_drained' = target_drained + 1
    /\ target_queued' = target_queued - 1
    /\ UNCHANGED << config, pc, target_client, source_client, drain, subscribed,
                    switch_configs, notification, consumed, tristate,
                    publish_calls, publish_count, run_result, captured, stderr,
                    warned, exit >>

source_connect ==
    /\ pc = "source_connect"
    /\ source_client' = TRUE
    /\ pc' = "subscribe"
    /\ UNCHANGED << config, target_client, drain, target_drained, subscribed,
                    switch_configs, notification, consumed, tristate,
                    publish_calls, publish_count, run_result, captured, stderr,
                    warned, exit,
                    target_queued >>

\* subscribe whose error is dropped: run goes on to build the table
subscribe_ignore_error ==
    /\ pc = "subscribe"
    /\ \E ok \in BOOLEAN :
          /\ subscribed' = ok
          /\ pc' = "prepare"
          /\ run_result' = run_result
    /\ UNCHANGED << config, target_client, source_client, drain, target_drained,
                    switch_configs, notification, consumed, tristate,
                    publish_calls, publish_count, captured, stderr, warned, exit,
                    target_queued >>

\* source_mqtt_client.subscribe(..)?
subscribe ==
    /\ pc = "subscribe"
    /\ \E ok \in BOOLEAN :
          /\ subscribed' = ok
          /\ pc' = IF ok THEN "prepare" ELSE "run_returned"
          /\ run_result' = IF ok THEN run_result ELSE "SubscribeError"
    /\ UNCHANGED << config, target_client, source_client, drain, target_drained,
                    switch_configs, notification, consumed, tristate,
                    publish_calls, publish_count, captured, stderr, warned, exit,
                    target_queued >>

prepare ==
    /\ pc = "prepare"
    /\ switch_configs' = prepare_switch_configs(config.switches)
    /\ pc' = "loop"
    /\ UNCHANGED << config, target_client, source_client, drain, target_drained,
                    subscribed, notification, consumed, tristate, publish_calls,
                    publish_count, run_result, captured, stderr, warned, exit,
                    target_queued >>

\* client.publish(target_topic, QoS::AtLeastOnce, false, t), with its outcome
PublishCall(topic, payload, ok) == [topic |-> topic, payload |-> payload, ok |-> ok]

\* on_publish that publishes on the topic of the inbound message
on_publish_inbound_topic(p) ==
    LET payload == from_utf8(p.payload)
        t == zap_tristate(p.topic, payload.val, switch_configs)
    IN IF payload.tag = "Err"
       THEN /\ run_result' = "DecodeError"
            /\ pc' = "run_returned"
            /\ tristate' = Unset
            /\ UNCHANGED << publish_calls, publish_count, target_queued >>
       ELSE /\ tristate' = t
            /\ IF t.tag = "Some"
               THEN /\ publish_count' = publish_count + 1
                    /\ \E ok \in BOOLEAN :
                          /\ ok => target_queued < REQUEST_CAP
                          /\ target_queued' = IF ok THEN target_queued + 1 ELSE target_queued
                          /\ publish_calls' =
                                Append(publish_calls, PublishCall(p.topic, t.val, ok))
                          /\ pc' = IF ok THEN "loop" ELSE "run_returned"
                          /\ run_result' = IF ok THEN run_result ELSE "PublishError"
               ELSE UNCHANGED << publish_calls, publish_count, pc, run_result,
                              target_queued >>

\* on_publish that logs a failed publish and goes on with the loop
on_publish_ignore_failure(p) ==
    LET payload == from_utf8(p.payload)
        t == zap_tristate(p.topic, payload.val, switch_configs)
    IN IF payload.tag = "Err"
       THEN /\ run_result' = "DecodeError"
            /\ pc' = "run_returned"
            /\ tristate' = Unset
            /\ UNCHANGED << publish_calls, publish_count, target_queued >>
       ELSE /\ tristate' = t
            /\ IF t.tag = "Some"
               THEN /\ publish_count' = publish_count + 1
                    /\ \E ok \in BOOLEAN :
                          /\ ok => target_queued < REQUEST_CAP
                          /\ target_queued' = IF ok THEN target_queued + 1
                                               ELSE target_queued
                          /\ publish_calls' =
                                Append(publish_calls,
                                       PublishCall(config.target_topic, t.val, ok))
                    /\ UNCHANGED << pc, run_result >>
               ELSE UNCHANGED << publish_calls, publish_count, pc, run_result,
                              target_queued >>

\* on_publish that skips a message whose payload is not UTF-8
on_publish_skip_undecodable(p) ==
    LET payload == from_utf8(p.payload)
        t == zap_tristate(p.topic, payload.val, switch_configs)
    IN IF payload.tag = "Err"
       THEN /\ tristate' = Unset
            /\ UNCHANGED << publish_calls, publish_count, pc, run_result,
                              target_queued >>
       ELSE /\ tristate' = t
            /\ IF t.tag = "Some"
               THEN /\ publish_count' = publish_count + 1
                    /\ \E ok \in BOOLEAN :
                          /\ ok => target_queued < REQUEST_CAP
                          /\ target_queued' = IF ok THEN target_queued + 1 ELSE target_queued
                          /\ publish_calls' =
                                Append(publish_calls,
                                       PublishCall(config.target_topic, t.val, ok))
                          /\ pc' = IF ok THEN "loop" ELSE "run_returned"
                          /\ run_result' = IF ok THEN run_result ELSE "PublishError"
               ELSE UNCHANGED << publish_calls, publish_count, pc, run_result,
                              target_queued >>

\* on_publish whose calls reach the target session newest first
on_publish_prepend(p) ==
    LET payload == from_utf8(p.payload)
        t == zap_tristate(p.topic, payload.val, switch_configs)
    IN IF payload.tag = "Err"
       THEN /\ run_result' = "DecodeError"
            /\ pc' = "run_returned"
            /\ tristate' = Unset
            /\ UNCHANGED << publish_calls, publish_count, target_queued >>
       ELSE /\ tristate' = t
            /\ IF t.tag = "Some"
               THEN /\ publish_count' = publish_count + 1
                    /\ \E ok \in BOOLEAN :
                          /\ ok => target_queued < REQUEST_CAP
                          /\ target_queued' = IF ok THEN target_queued + 1 ELSE target_queued
                          /\ publish_calls' =
                                << PublishCall(config.target_topic, t.val, ok) >>
                                    \o publish_calls
                          /\ pc' = IF ok THEN "loop" ELSE "run_returned"
                          /\ run_result' = IF ok THEN run_result ELSE "PublishError"
               ELSE UNCHANGED << publish_calls, publish_count, pc, run_result,
                              target_queued >>

\* on_publish that counts a publish only after it has succeeded
on_publish_count_success(p) ==
    LET payload == from_utf8(p.payload)
        t == zap_tristate(p.topic, payload.val, switch_configs)
    IN IF payload.tag = "Err"
       THEN /\ run_result' = "DecodeError"
            /\ pc' = "run_returned"
            /\ tristate' = Unset
            /\ UNCHANGED << publish_calls, publish_count, target_queued >>
       ELSE /\ tristate' = t
            /\ IF t.tag = "Some"
               THEN \E ok \in BOOLEAN :
                       /\ ok => target_queued < REQUEST_CAP
                       /\ target_queued' = IF ok THEN target_queued + 1 ELSE target_queued
                       /\ publish_calls' =
                             Append(publish_calls,
                                    PublishCall(config.target_topic, t.val, ok))
                       /\ publish_count' = IF ok THEN publish_count + 1
                                           ELSE publish_count
                       /\ pc' = IF ok THEN "loop" ELSE "run_returned"
                       /\ run_result' = IF ok THEN run_result ELSE "PublishError"
               ELSE UNCHANGED << publish_calls, publish_count, pc, run_result,
                              target_queued >>

\* The body of `if let Packet::Publish(p) = packet`: decode, transform, and on
\* Some(t) count and publish; `?` returns a decode or publish error from run.
\* client.publish returns Ok once the request is in the channel to the event
\* loop of the target connection and waits while that channel is full; it
\* returns Err when the channel is closed.
on_publish(p) ==
    LET payload == from_utf8(p.payload)
        t == zap_tristate(p.topic, payload.val, switch_configs)
    IN IF payload.tag = "Err"
       THEN /\ run_result' = "DecodeError"
            /\ pc' = "run_returned"
            /\ tristate' = Unset
            /\ UNCHANGED << publish_calls, publish_count, target_queued >>
       ELSE /\ tristate' = t
            /\ IF t.tag = "Some"
               THEN /\ publish_count' = publish_count + 1
                    /\ \E ok \in BOOLEAN :
                          /\ ok => target_queued < REQUEST_CAP
                          /\ target_queued' = IF ok THEN target_queued + 1 ELSE target_queued
                          /\ publish_calls' =
                                Append(publish_calls,
                                       PublishCall(config.target_topic, t.val, ok))
                          /\ pc' = IF ok THEN "loop" ELSE "run_returned"
                          /\ run_result' = IF ok THEN run_result ELSE "PublishError"
               ELSE UNCHANGED << publish_calls, publish_count, pc, run_result,
                              target_queued >>

\* loop_err that returns the error from run
loop_err_fatal ==
    /\ pc = "loop"
    /\ consumed < MaxEvents
    /\ notification' = ErrEvent
    /\ consumed' = consumed + 1
    /\ tristate' = Unset
    /\ pc' = "run_returned"
    /\ run_result' = "ConnectionError"
    /\ UNCHANGED << config, target_client, source_client, drain,
                    target_drained, subscribed, switch_configs, publish_calls,
                    publish_count, captured, stderr, warned, exit,
                    target_queued >>

\* The iterator yields Err(e): the error is logged.
loop_err ==
    /\ pc = "loop"
    /\ consumed < MaxEvents
    /\ notification' = ErrEvent
    /\ consumed' = consumed + 1
    /\ tristate' = Unset
    /\ UNCHANGED << config, pc, target_client, source_client, drain,
                    target_drained, subscribed, switch_configs, publish_calls,
                    publish_count, run_result, captured, stderr, warned, exit,
                    target_queued >>

\* The iterator yields Ok(Event::Incoming(packet)), a Publish packet with a
\* topic and a payload of the given sets, while fewer than `limit` events
\* were delivered
incoming_publish(limit, topics, payloads) ==
    /\ pc = "loop"
    /\ consumed < limit
    /\ \E t \in topics, b \in payloads :
          /\ notification' = Publish(t, b)
          /\ on_publish(Publish(t, b))
    /\ consumed' = consumed + 1
    /\ UNCHANGED << config, target_client, source_client, drain, target_drained,
                    subscribed, switch_configs, captured, stderr, warned, exit >>

\* The iterator yields Ok(Event::Incoming(packet)), a Publish packet
loop_incoming_publish == incoming_publish(MaxEvents, Topics, Payloads)

\* The iterator yields Ok(Event::Incoming(packet)), any other packet
loop_incoming_other ==
    /\ pc = "loop"
    /\ consumed < MaxEvents
    /\ notification' = OtherIncoming
    /\ consumed' = consumed + 1
    /\ tristate' = Unset
    /\ UNCHANGED << config, pc, target_client, source_client, drain,
                    target_drained, subscribed, switch_configs, publish_calls,
                    publish_count, run_result, captured, stderr, warned, exit,
                    target_queued >>

\* The iterator yields Ok(Event::Outgoing(event)): logged unless a PingReq
loop_outgoing ==
    /\ pc = "loop"
    /\ consumed < MaxEvents
    /\ \E e \in { PingReq, OtherOutgoing } : notification' = e
    /\ consumed' = consumed + 1
    /\ tristate' = Unset
    /\ UNCHANGED << config, pc, target_client, source_client, drain,
                    target_drained, subscribed, switch_configs, publish_calls,
                    publish_count, run_result, captured, stderr, warned, exit,
                    target_queued >>

\* loop_end that subscribes again when the stream has ended
loop_end_resubscribe ==
    /\ pc = "loop"
    /\ warned' = TRUE
    /\ run_result' = run_result
    /\ pc' = "subscribe"
    /\ UNCHANGED << config, target_client, source_client, drain, target_drained,
                    subscribed, switch_configs, notification, consumed, tristate,
                    publish_calls, publish_count, captured, stderr, exit,
                    target_queued >>

\* loop_end that returns an error for the closed stream
loop_end_as_error ==
    /\ pc = "loop"
    /\ warned' = TRUE
    /\ run_result' = "StreamClosed"
    /\ pc' = "run_returned"
    /\ UNCHANGED << config, target_client, source_client, drain, target_drained,
                    subscribed, switch_configs, notification, consumed, tristate,
                    publish_calls, publish_count, captured, stderr, exit,
                    target_queued >>

\* The iterator ends: the warning is logged and run returns Ok(()).
loop_end ==
    /\ pc = "loop"
    /\ warned' = TRUE
    /\ run_result' = "Ok"
    /\ pc' = "run_returned"
    /\ UNCHANGED << config, target_client, source_client, drain, target_drained,
                    subscribed, switch_configs, notification, consumed, tristate,
                    publish_calls, publish_count, captured, stderr, exit,
                    target_queued >>

Next ==
    \/ main_no_arg
    \/ main_setup_error
    \/ main_load_config
    \/ target_connect
    \/ spawn_target_drain
    \/ target_drain_step
    \/ source_connect
    \/ subscribe
    \/ prepare
    \/ loop_err
    \/ loop_incoming_publish
    \/ loop_incoming_other
    \/ loop_outgoing
    \/ loop_end
    \/ main_return

Spec == Init /\ [][Next]_vars

\* ------------------------------------------------- a backlog on the target
\* The sample switch d2777 as the whole configuration
BacklogConfig ==
    [switches |-> << SwitchConfig(n_d2777, "FFFFFFFF0001", "FFFFFFFF0010") >>,
     target_topic |-> TargetTopic]

\* run at the head of the loop: both clients created, the thread spawned,
\* the subscription made and the table built; no event taken yet.
InitBacklog ==
    /\ config = BacklogConfig
    /\ pc = "loop"
    /\ target_client = TRUE
    /\ source_client = TRUE
    /\ drain = "running"
    /\ target_drained = 0
    /\ target_queued = 0
    /\ subscribed = TRUE
    /\ switch_configs = prepare_switch_configs(BacklogConfig.switches)
    /\ notification = NoEvent
    /\ consumed = 0
    /\ tristate = Unset
    /\ publish_calls = <<>>
    /\ publish_count = 0
    /\ run_result = "none"
    /\ captured = 0
    /\ stderr = FALSE
    /\ warned = FALSE
    /\ exit = "running"

\* The source stream delivers "home/living/d2777/set" with payload "1"
backlog_publish == incoming_publish(BacklogEvents, { t_d2777_set }, { STR_1 })

NextBacklog ==
    \/ backlog_publish
    \/ target_drain_step
    \/ loop_end
    \/ main_return

\* The loop under a stream of matching messages, with the thread of the
\* target connection scheduled at any time or not at all.
SpecBacklog == InitBacklog /\ [][NextBacklog]_vars

\* ----------------------------------------------------------------- claims
\* The positions of the separator in a topic
Slashes(t) == { i \in 1..Len(t) : t[i] = SLASH }

\* A topic has a segment at index 2 iff it holds at least two separators
HasThirdSegment(t) == Cardinality(Slashes(t)) >= 2

\* The text between the second separator and the third one (or the end)
ThirdSegment(t) ==
    LET first == CHOOSE i \in Slashes(t) : \A j \in Slashes(t) : i <= j
        rest == { i \in Slashes(t) : i > first }
        second == CHOOSE i \in rest : \A j \in rest : i <= j
        after == { i \in Slashes(t) : i > second }
        stop == IF after = {} THEN Len(t)
                ELSE (CHOOSE i \in after : \A j \in after : i <= j) - 1
    IN SubSeq(t, second + 1, stop)

\* The current iteration handles a Publish packet
IsPublish == notification.kind = "Publish"

\* The current iteration handles a Publish packet whose payload is a str
IsDecodedPublish == IsPublish /\ ValidUtf8(notification.payload)

\* The current iteration handles a Publish packet whose payload is no str
IsUndecodablePublish == IsPublish /\ ~ValidUtf8(notification.payload)

\* prepare_switch_configs has returned
TableBuilt == subscribed /\ pc # "prepare"

\* The calls of client.publish that returned Ok
Successes == { i \in 1..Len(publish_calls) : publish_calls[i].ok }

\* C1: a step of the loop that takes a Publish event with a UTF-8 payload
\* calls client.publish iff zap_tristate returns a command; then it is one
\* call, with that command as payload and config.target_topic as topic.
C1_RelayIffCommand ==
    [][ (consumed' = consumed + 1
           /\ notification'.kind = "Publish"
           /\ ValidUtf8(notification'.payload))
        => LET cmd == zap_tristate(notification'.topic, notification'.payload,
                                   switch_configs)
               n == Len(publish_calls)
           IN IF cmd.tag = "Some"
              THEN /\ Len(publish_calls') = n + 1
                   /\ SubSeq(publish_calls', 1, n) = publish_calls
                   /\ publish_calls'[n + 1].payload = cmd.val
                   /\ publish_calls'[n + 1].topic = config.target_topic
              ELSE publish_calls' = publish_calls ]_vars

\* "home/living/d2777/set" with payload "1" is relayed as "FFFFFFFF0001" on
\* the target topic.
C1_Witness ==
    /\ config.switches = << SwitchConfig(n_d2777, "FFFFFFFF0001", "FFFFFFFF0010") >>
    /\ notification = Publish(t_d2777_set, STR_1)
    /\ Len(publish_calls) = 1
    /\ publish_calls[1].payload = "FFFFFFFF0001"
    /\ publish_calls[1].topic = TargetTopic

\* C2: when the segment at index 2 of the topic is a name n of the table,
\* payload "0" gives the off string of n and payload "1" its on string.
C2_OnOffOfNamedSwitch ==
    \A n \in DOMAIN switch_configs :
        (IsPublish /\ HasThirdSegment(notification.topic)
                   /\ ThirdSegment(notification.topic) = n)
        => /\ notification.payload = STR_0 => tristate = Some(switch_configs[n].off)
           /\ notification.payload = STR_1 => tristate = Some(switch_configs[n].on)

C2_Witness ==
    /\ IsPublish
    /\ notification.topic = t_d2778
    /\ notification.payload = STR_0
    /\ n_d2778 \in DOMAIN switch_configs
    /\ tristate = Some("FFFFF0FF0010")

\* C3: a topic with fewer than 3 segments (fewer than two separators) gives
\* None, whatever the payload and the table.
C3_ShortTopicNoMatch ==
    (IsDecodedPublish /\ ~HasThirdSegment(notification.topic)) => tristate = None

\* The topic "" is its only segment and is a key of the table.
C3_Witness ==
    /\ IsDecodedPublish
    /\ notification.topic = t_empty
    /\ notification.payload = STR_1
    /\ t_empty \in DOMAIN switch_configs
    /\ tristate = None

\* C4: a payload other than exactly "0" or exactly "1" gives None.
C4_OtherPayloadNoMatch ==
    (IsDecodedPublish /\ notification.payload \notin { STR_0, STR_1 })
    => tristate = None

\* "1 " on a topic naming a configured switch
C4_Witness ==
    /\ IsDecodedPublish
    /\ notification.topic = t_d2777_set
    /\ notification.payload = p_1_space
    /\ n_d2777 \in DOMAIN switch_configs
    /\ tristate = None

\* C5: of the entries of config.switches that share a name, the table holds
\* the last one, and the table has one entry per distinct name.
C5_LastEntryWins ==
    TableBuilt =>
        LET sw == config.switches
        IN /\ \A i, j \in 1..Len(sw) :
                 (i < j /\ sw[i].name = sw[j].name
                        /\ \A k \in (j + 1)..Len(sw) : sw[k].name # sw[j].name)
                 => /\ sw[j].name \in DOMAIN switch_configs
                    /\ switch_configs[sw[j].name].on = sw[j].on
                    /\ switch_configs[sw[j].name].off = sw[j].off
           /\ DOMAIN switch_configs = { sw[i].name : i \in 1..Len(sw) }

C5_Witness ==
    /\ TableBuilt
    /\ config.switches = << SwitchConfig(n_d2777, "FFFFFFFF0001", "FFFFFFFF0010"),
                            SwitchConfig(n_d2777, "0F0F0F0F0001", "0F0F0F0F0010") >>
    /\ switch_configs[n_d2777].on = "0F0F0F0F0001"

\* C6: N configs with pairwise distinct names give a table of N entries in
\* which each name maps to its config; every key is the name of its value.
C6_DistinctNamesRoundTrip ==
    TableBuilt =>
        LET sw == config.switches
        IN /\ (\A i, j \in 1..Len(sw) : i # j => sw[i].name # sw[j].name)
              => /\ Cardinality(DOMAIN switch_configs) = Len(sw)
                 /\ \A i \in 1..Len(sw) :
                       /\ sw[i].name \in DOMAIN switch_configs
                       /\ switch_configs[sw[i].name] = sw[i]
           /\ \A k \in DOMAIN switch_configs : switch_configs[k].name = k

\* The sample configuration of test_prepare_zap_configs
C6_Witness ==
    /\ TableBuilt
    /\ config.switches = << SwitchConfig(n_d2777, "FFFFFFFF0001", "FFFFFFFF0010"),
                            SwitchConfig(n_d2778, "FFFFFF0F0001", "FFFFF0FF0010") >>
    /\ Cardinality(DOMAIN switch_configs) = 2

\* C7: the counter equals the number of messages whose command was
\* published successfully.
C7_CountEqualsSuccesses == publish_count = Cardinality(Successes)

\* C8: a failed publish is the last thing the loop does: run returns the
\* publish error, no event is taken after the failing message, and the
\* process ends in failure.
C8_PublishErrorEndsRun ==
    \A i \in 1..Len(publish_calls) :
        ~publish_calls[i].ok
        => /\ i = Len(publish_calls)
           /\ run_result = "PublishError"
           /\ pc \in { "run_returned", "exited" }
           /\ pc = "exited" => exit = "failure"
           /\ IsPublish
           /\ tristate = Some(publish_calls[i].payload)

\* The second message's publish fails and the process has exited.
C8_Witness ==
    /\ Len(publish_calls) = 2
    /\ publish_calls[1].ok
    /\ ~publish_calls[2].ok
    /\ run_result = "PublishError"
    /\ exit = "failure"

\* C9: a step that takes a Publish event whose payload is not UTF-8 makes run
\* return the decode error without a publish or a count, and once run has
\* returned it no event is taken, nothing is published and nothing counted.
C9_DecodeErrorStopsRun ==
    [][ /\ (consumed' = consumed + 1
              /\ notification'.kind = "Publish"
              /\ ~ValidUtf8(notification'.payload))
           => /\ run_result' = "DecodeError"
              /\ pc' = "run_returned"
              /\ publish_calls' = publish_calls
              /\ publish_count' = publish_count
        /\ run_result = "DecodeError"
           => /\ run_result' = "DecodeError"
              /\ pc' \in { "run_returned", "exited" }
              /\ consumed' = consumed
              /\ notification' = notification
              /\ publish_calls' = publish_calls
              /\ publish_count' = publish_count ]_vars

\* A relayed message, then an undecodable one; the process has exited.
C9_Witness ==
    /\ run_result = "DecodeError"
    /\ IsUndecodablePublish
    /\ consumed = 2
    /\ Len(publish_calls) = 1
    /\ publish_count = 1
    /\ exit = "failure"

\* C10 as stated: after a Publish event with a payload that is not UTF-8 the
\* loop is still running, or has ended only because the stream ended.
C10_LoopSurvivesDecodeError ==
    IsUndecodablePublish => (pc = "loop" \/ run_result = "Ok")

\* C10, amended: a Publish event with a payload that is not UTF-8 ends the
\* loop: run has returned the decode error and the loop is not running.
C10_DecodeErrorEndsLoop ==
    IsUndecodablePublish
    => (run_result = "DecodeError" /\ pc \in { "run_returned", "exited" })

\* The stream could have delivered a further event.
C10_Witness ==
    /\ IsUndecodablePublish
    /\ consumed < MaxEvents
    /\ pc = "run_returned"

\* The stream has ended: run has left the loop without taking an event
StreamEnded == warned

\* C11: when the source stream ends the loop is left, the warning is logged,
\* run returns Ok(()) and the process ends in success; after the end of the
\* stream no event is taken, nothing is published and nothing counted.
C11_StreamEndTerminates ==
    [][ /\ (pc = "loop" /\ pc' # "loop" /\ consumed' = consumed)
           => (warned' /\ run_result' = "Ok" /\ pc' = "run_returned")
        /\ warned'
           => /\ run_result' = "Ok"
              /\ pc' \in { "run_returned", "exited" }
              /\ pc' = "exited" => exit' = "success"
        /\ warned
           => /\ consumed' = consumed
              /\ publish_calls' = publish_calls
              /\ publish_count' = publish_count ]_vars

\* The stream ended after a relayed message and the process has exited.
C11_Witness ==
    /\ StreamEnded
    /\ run_result = "Ok"
    /\ exit = "success"
    /\ Len(publish_calls) = 1
    /\ publish_count = 1

\* C12: a connection failure on the initial connect is fatal. MqttClient::new
\* returns no Result, so the failure of the source connection reaches run as
\* the first item of source_notifications, an Err; the claim is that run has
\* then ended with an error.
C12_ConnectionErrorIsFatal ==
    (consumed = 1 /\ notification.kind = "Err")
    => (pc \in { "run_returned", "exited" } /\ run_result \notin { "none", "Ok" })

\* The subscribe call was made and returned an error
SubscribeFailed == source_client /\ pc # "subscribe" /\ ~subscribed

\* C13: a failed subscribe makes run return the error before the table is
\* built; no event is taken, nothing is published and nothing counted, and
\* the process ends in failure.
C13_SubscribeErrorIsFatal ==
    /\ SubscribeFailed
       => /\ run_result = "SubscribeError"
          /\ pc \in { "run_returned", "exited" }
          /\ pc = "exited" => exit = "failure"
          /\ switch_configs = EmptyMap
          /\ notification = NoEvent
          /\ consumed = 0
          /\ publish_calls = <<>>
          /\ publish_count = 0
    /\ run_result = "SubscribeError" => SubscribeFailed

\* A configuration with switches, a failed subscribe, the process has exited.
C13_Witness ==
    /\ SubscribeFailed
    /\ Len(config.switches) = 2
    /\ run_result = "SubscribeError"
    /\ exit = "failure"

\* C14: started without the path argument, the process prints to stderr and
\* ends in failure, with no configuration read and no session created.
C14_MissingArgumentFails ==
    stderr => /\ exit = "failure"
              /\ config = NoConfig
              /\ ~target_client
              /\ ~source_client

\* C15: when the process has exited after run returned, an error of run was
\* captured exactly once and a run without error captured nothing; nothing
\* is captured before run has returned.
C15_RunErrorCapturedOnce ==
    /\ (pc = "exited" /\ run_result # "none")
       => /\ captured = (IF run_result = "Ok" THEN 0 ELSE 1)
          /\ exit = (IF run_result = "Ok" THEN "success" ELSE "failure")
    /\ pc # "exited" => captured = 0
    /\ run_result = "none" => captured = 0

\* run ended with the publish error, which was captured before the exit.
C15_Witness ==
    /\ pc = "exited"
    /\ run_result = "PublishError"
    /\ captured = 1
    /\ exit = "failure"

\* The phases of the bridge, numbered in their order: 1 Connecting (up to the
\* subscribe call), 2 Subscribed, 3 Relaying, 4 Closed
Phase(p) ==
    IF p \in { "main", "target_connect", "spawn", "source_connect", "subscribe" }
    THEN 1
    ELSE IF p = "prepare" THEN 2
    ELSE IF p = "loop" THEN 3
    ELSE 4

C18_RelayedInReceiptOrder ==
    [][ /\ consumed' # consumed => (pc = "loop" /\ consumed' = consumed + 1)
        /\ publish_calls' # publish_calls
           => /\ consumed' = consumed + 1
              /\ notification'.kind = "Publish"
              /\ ValidUtf8(notification'.payload)
              /\ Len(publish_calls') = Len(publish_calls) + 1
              /\ SubSeq(publish_calls', 1, Len(publish_calls)) = publish_calls
              /\ Some(publish_calls'[Len(publish_calls')].payload) =
                    zap_tristate(notification'.topic, notification'.payload,
                                 switch_configs) ]_vars

\* Two messages for different switches were relayed, in the order received.
C18_Witness ==
    /\ Len(publish_calls) = 2
    /\ publish_calls[1].payload = "FFFFFFFF0001"
    /\ publish_calls[2].payload = "FFFFF0FF0010"
    /\ notification = Publish(t_d2778, STR_0)

\* C19: the counter is the number of publish calls made so far, successful or
\* not, so it exceeds the number of successful ones by at most one.
C19_CountEqualsAttempts ==
    /\ publish_count = Len(publish_calls)
    /\ publish_count - Cardinality(Successes) \in { 0, 1 }

\* One successful and one failed publish: the counter is 2.
C19_Witness ==
    /\ Len(publish_calls) = 2
    /\ Cardinality(Successes) = 1
    /\ publish_count = 2

\* C20: a step that takes an Err from the source stream publishes nothing,
\* leaves the counter and the result of run alone and stays in the loop.
C20_ErrEventOnlyLogged ==
    [][ (consumed' = consumed + 1 /\ notification'.kind = "Err")
        => /\ publish_calls' = publish_calls
           /\ publish_count' = publish_count
           /\ run_result' = run_result
           /\ run_result' = "none"
           /\ pc' = "loop" ]_vars

\* An Err taken after a relayed message; the loop is still running.
C20_Witness ==
    /\ notification.kind = "Err"
    /\ consumed = 2
    /\ Len(publish_calls) = 1
    /\ pc = "loop"

\* C16: the thread iterating target_notifications never holds up the main
\* loop: whenever the loop is running, a publish call can put its request in
\* the channel without a step of that thread.
C16_PublishNeverWaitsOnDrain == pc = "loop" => target_queued < REQUEST_CAP

====
